---- MODULE Spec2Model ----
(***************************************************************************)
(* A model of gsh (mdjunior/gsh): the delegated signer of the API          *)
(* (api/handlers/vault.go) called from concurrent request goroutines, and  *)
(* the two client commands role-assign and host-connect (cli/cmd), and     *)
(* the API's configuration check (config.Check).                           *)
(* One process image runs at a time: the variable program says which.      *)
(***************************************************************************)
EXTENDS Integers, Sequences, FiniteSets, TLC

VARIABLES
    program,   \* which binary / cobra command this run is
    v,         \* the shared Vault struct: Url, token, roleId, secretId
    gpc,       \* per goroutine: where it is inside a Vault method
    greq,      \* per goroutine: the HTTP request it has in flight
    gresp,     \* per goroutine: the last HTTP response it received
    gret,      \* per goroutine: what its last Vault call returned
    log,       \* what the API process printed to stdout
    cli,       \* the client command: its flags, locals, position and exit
    conf       \* the API's configuration and what config.Check made of it

vars == <<program, v, gpc, greq, gresp, gret, log, cli, conf>>

apiVars == <<v, gpc, greq, gresp, gret, log>>

----------------------------------------------------------------------------
(* Bounds of the model *)

NumGoroutines == 2

\* a configuration tried leaves at most this many settings empty
MaxEmpty == 2

Goroutines == 1..NumGoroutines

\* client_token values the remote signer may hand out
Tokens == {"tok-1", "tok-2"}

\* HTTP status codes the remote side answers with
Statuses == {200, 500}

\* remote users a certificate may be requested for
Users == {"deploy", "root"}

\* signed certificates the remote signer may return
SignedKeys == {"ssh-rsa-cert-v01 AAAA"}

\* argument values of GetExternalPublicKey(url)
PublicKeyUrls == {"https://ca.example/public_key"}

----------------------------------------------------------------------------
(* Values *)

Nil == <<>>

NoReq == [op |-> "none", attempt |-> 0]

NoRet == [op |-> "none", val |-> "", err |-> Nil, requests |-> 0]

\* a multiword string read while another goroutine stores it
Torn == "<torn>"

StatusOK == 200

\* http.Client{Timeout: 10s}, in seconds
ClientTimeout == 10

\* http.Get uses http.DefaultClient, whose Timeout is zero: no timeout
NoTimeout == 0

\* fmt's decimal rendering of the status codes the model uses
StatusText(s) ==
    CASE s = 200 -> "200"
      [] s = 403 -> "403"
      [] s = 500 -> "500"
      [] OTHER -> "???"

\* A response body is either undecodable (valid = FALSE) or a JSON document
\* whose one field of interest has the given value ("" when it is missing).
Bodies(values) ==
    {[valid |-> FALSE, value |-> ""]} \cup {[valid |-> TRUE, value |-> x] : x \in values \cup {""}}

NoBody == [valid |-> FALSE, value |-> ""]

NoResp == [err |-> FALSE, status |-> 0, readErr |-> FALSE, body |-> NoBody]

\* What client.Do may come back with: a transport error (a timeout included),
\* a status other than 200 (the code never reads that body), or 200 and a body.
Responses(values) ==
    {[err |-> TRUE, status |-> 0, readErr |-> FALSE, body |-> NoBody]}
    \cup {[err |-> FALSE, status |-> s, readErr |-> FALSE, body |-> NoBody] :
            s \in Statuses \ {200}}
    \cup {[err |-> FALSE, status |-> 200, readErr |-> FALSE, body |-> b] :
            b \in Bodies(values)}

\* json.Decoder.Decode into a zero struct, its error dropped: the field keeps
\* its zero value unless the document decodes.
Decode(body) == IF body.valid THEN body.value ELSE ""

----------------------------------------------------------------------------
(* type Vault, GetVault *)

GetVault == [Url |-> "", token |-> "", roleId |-> "", secretId |-> ""]

\* a Vault whose fields the handlers package filled from the configuration
ConfiguredVault ==
    [Url |-> "vault.internal:8200", token |-> "", roleId |-> "role-id-1", secretId |-> "secret-id-1"]

\* a method returns; requests is the number of HTTP requests the call sent
Return(g, op, val, err) ==
    /\ gret' = [gret EXCEPT ![g] = [op |-> op, val |-> val, err |-> err,
                                    requests |-> greq[g].attempt]]
    /\ gpc' = [gpc EXCEPT ![g] = "idle"]
    /\ greq' = [greq EXCEPT ![g] = NoReq]

----------------------------------------------------------------------------
(* func (v *Vault) GetToken() error *)

GetTokenRequest ==
    [op |-> "GetToken",
     method |-> "POST",
     url |-> <<"https://", v.Url, "/v1/auth/approle/login">>,
     body |-> [role_id |-> v.roleId, secret_id |-> v.secretId],
     token |-> "",
     attempt |-> 1,
     timeout |-> ClientTimeout]

\* lines 61-70: build the login request and hand it to client.Do
GetTokenCall(g) ==
    /\ program = "api"
    /\ gpc[g] = "idle"
    /\ greq' = [greq EXCEPT ![g] = GetTokenRequest]
    /\ gpc' = [gpc EXCEPT ![g] = "GetToken.Do"]
    /\ gret' = [gret EXCEPT ![g] = NoRet]
    /\ gresp' = [gresp EXCEPT ![g] = NoResp]
    /\ UNCHANGED <<program, v, log, cli, conf>>

GetTokenErrDo == <<"Failed to autenticate with vault">>

GetTokenErrStatus == <<"Failed to auhenticate with vault">>

\* client.Do in a loop that sends the request again after a transport error
GetTokenResponseRetrying(g) ==
    /\ program = "api"
    /\ gpc[g] = "GetToken.Do"
    /\ \E r \in Responses(Tokens) :
        /\ gresp' = [gresp EXCEPT ![g] = r]
        /\ IF r.err
             THEN /\ greq' = [greq EXCEPT ![g].attempt = @ + 1]
                  /\ UNCHANGED <<gpc, gret>>
             ELSE IF r.status # StatusOK
             THEN Return(g, "GetToken", "", GetTokenErrStatus)
             ELSE /\ gpc' = [gpc EXCEPT ![g] = "GetToken.store"]
                  /\ UNCHANGED <<greq, gret>>
    /\ UNCHANGED <<program, v, log, cli, conf>>

\* lines 70-80: client.Do returns; error and status checks; Decode
GetTokenResponse(g) ==
    /\ program = "api"
    /\ gpc[g] = "GetToken.Do"
    /\ \E r \in Responses(Tokens) :
        /\ gresp' = [gresp EXCEPT ![g] = r]
        /\ IF r.err
             THEN Return(g, "GetToken", "", GetTokenErrDo)
             ELSE IF r.status # StatusOK
             THEN Return(g, "GetToken", "", GetTokenErrStatus)
             ELSE /\ gpc' = [gpc EXCEPT ![g] = "GetToken.store"]
                  /\ UNCHANGED <<greq, gret>>
    /\ UNCHANGED <<program, v, log, cli, conf>>

\* the accessor of the response read in place of its client_token
GetTokenStoredAccessor(g) == IF gresp[g].body.valid THEN "accessor-1" ELSE ""

\* the value line 81 stores
GetTokenStored(g) == Decode(gresp[g].body)

\* lines 81-83: v.token = authResponse.Auth.ClientToken; return nil
GetTokenStore(g) ==
    /\ program = "api"
    /\ gpc[g] = "GetToken.store"
    /\ v' = [v EXCEPT !.token = GetTokenStored(g)]
    /\ Return(g, "GetToken", "", Nil)
    /\ UNCHANGED <<program, gresp, log, cli, conf>>

----------------------------------------------------------------------------
(* func (v *Vault) SignSshCertificate(c *ssh.Certificate) (string, error) *)

\* the certificates handed to SignSshCertificate: the public key to sign and
\* the remote user the request was authorized for
Certificates == [Key : {"ssh-rsa AAAA"}, ValidPrincipals : Users]

\* Vault.token has no lock: a read that overlaps another goroutine's store of
\* it (line 81) is a data race and may also see a torn string.
TokenReads(g) ==
    {v.token} \cup
    (IF \E h \in Goroutines \ {g} : gpc[h] = "GetToken.store" THEN {Torn} ELSE {})

\* the principals line 89 puts into the request
SignPrincipals(c) == "root"

\* the X-Vault-Token header of line 94, given the value read from v.token
SignToken(tok) == tok

SignRequest(c, tok) ==
    [op |-> "SignSshCertificate",
     method |-> "POST",
     url |-> <<"https://", v.Url, "/v1/ssh-client-signer/sign/teste-ssh">>,
     body |-> [public_key |-> c.Key,
               valid_principals |-> SignPrincipals(c),
               cert_type |-> "user"],
     cert |-> c,
     token |-> SignToken(tok),
     attempt |-> 1,
     timeout |-> ClientTimeout]

\* lines 87-98: build the signing request and hand it to client.Do
SignSshCertificateCall(g) ==
    /\ program = "api"
    /\ gpc[g] = "idle"
    /\ \E c \in Certificates, tok \in TokenReads(g) :
        greq' = [greq EXCEPT ![g] = SignRequest(c, tok)]
    /\ gpc' = [gpc EXCEPT ![g] = "SignSshCertificate.Do"]
    /\ gret' = [gret EXCEPT ![g] = NoRet]
    /\ gresp' = [gresp EXCEPT ![g] = NoResp]
    /\ UNCHANGED <<program, v, log, cli, conf>>

SignErrDo == <<"Failed to sign ssh certificate">>

SignErrStatus == <<"Failed to sign ssh certificate, not 200 ok">>

\* a debugging print of the request's token instead of the status
SignPrintedToken(r) == <<v.token>>

\* line 104: fmt.Println(resp.StatusCode)
SignPrinted(r) == <<StatusText(r.status)>>

\* what lines 103-106 return on a status other than 200
SignStatusReturn(g, r) == Return(g, "SignSshCertificate", "-1", SignErrStatus)

\* lines 98-111: client.Do returns; error and status checks; Decode; return
SignSshCertificateResponse(g) ==
    /\ program = "api"
    /\ gpc[g] = "SignSshCertificate.Do"
    /\ \E r \in Responses(SignedKeys) :
        /\ gresp' = [gresp EXCEPT ![g] = r]
        /\ IF r.err
             THEN /\ Return(g, "SignSshCertificate", "-1", SignErrDo)
                  /\ log' = log
             ELSE IF r.status # StatusOK
             THEN /\ log' = log \cup {SignPrinted(r)}
                  /\ SignStatusReturn(g, r)
             ELSE /\ Return(g, "SignSshCertificate", Decode(r.body), Nil)
                  /\ log' = log
    /\ UNCHANGED <<program, v, cli, conf>>

----------------------------------------------------------------------------
(* func (v *Vault) GetExternalPublicKey(url string) (string, error) *)

\* public keys the external CA may serve
PublicKeys == {"ssh-rsa CA-KEY"}

\* line 115: http.Get(v.Url), on http.DefaultClient
GetExternalPublicKeyRequest(url) ==
    [op |-> "GetExternalPublicKey",
     method |-> "GET",
     url |-> <<v.Url>>,
     arg |-> url,
     token |-> "",
     attempt |-> 1,
     timeout |-> NoTimeout]

GetExternalPublicKeyCall(g) ==
    /\ program = "api"
    /\ gpc[g] = "idle"
    /\ \E url \in PublicKeyUrls :
        greq' = [greq EXCEPT ![g] = GetExternalPublicKeyRequest(url)]
    /\ gpc' = [gpc EXCEPT ![g] = "GetExternalPublicKey.Get"]
    /\ gret' = [gret EXCEPT ![g] = NoRet]
    /\ gresp' = [gresp EXCEPT ![g] = NoResp]
    /\ UNCHANGED <<program, v, log, cli, conf>>

\* the responses to a plain GET: the body is raw text, and reading it may fail
GetResponses ==
    {[err |-> TRUE, status |-> 0, readErr |-> FALSE, body |-> NoBody]}
    \cup {[err |-> FALSE, status |-> s, readErr |-> FALSE, body |-> NoBody] :
            s \in Statuses \ {200}}
    \cup {[err |-> FALSE, status |-> 200, readErr |-> TRUE, body |-> NoBody]}
    \cup {[err |-> FALSE, status |-> 200, readErr |-> FALSE, body |-> [valid |-> TRUE, value |-> k]] :
            k \in PublicKeys \cup {""}}

\* the text of the *url.Error http.Get returns: Get "<url>": <cause>
GetErrText(req) == <<"Get ">> \o req.url \o <<": dial tcp: connection refused">>

GetExternalPublicKeyErrStatus == <<"External CA did not answer correctly">>

ReadAllErr == <<"unexpected EOF">>

\* lines 115-128
GetExternalPublicKeyResponse(g) ==
    /\ program = "api"
    /\ gpc[g] = "GetExternalPublicKey.Get"
    /\ \E r \in GetResponses :
        /\ gresp' = [gresp EXCEPT ![g] = r]
        /\ IF r.err
             THEN Return(g, "GetExternalPublicKey", "-1", GetErrText(greq[g]))
             ELSE IF r.status # StatusOK
             THEN Return(g, "GetExternalPublicKey", "-1", GetExternalPublicKeyErrStatus)
             ELSE IF r.readErr
             THEN Return(g, "GetExternalPublicKey", "-1", ReadAllErr)
             ELSE Return(g, "GetExternalPublicKey", r.body.value, Nil)
    /\ UNCHANGED <<program, v, log, cli, conf>>

----------------------------------------------------------------------------
(* The client commands (cli/cmd): shared values *)

\* the characters role and user arguments are made of
Chars == {"a", "7", "-", "_", "A", " "}

\* slug.IsSlug of github.com/gosimple/slug (MaxLength 0): not empty, no
\* leading or trailing '-' or '_', only a-z, 0-9, '-' and '_'
IsSlug(text) ==
    /\ text # <<>>
    /\ text[1] \notin {"-", "_"}
    /\ text[Len(text)] \notin {"-", "_"}
    /\ \A i \in 1..Len(text) : text[i] \in {"a", "7", "-", "_"}

\* role arguments tried: slugs and non-slugs
RoleArgs == {<<"a", "-", "7">>, <<"a">>, <<"A">>, <<"a", " ", "a">>, <<"-", "a">>, <<"a", "_">>, <<>>}

UserArgs == {<<"a", "7">>}

\* targets' endpoints in the client configuration: one that parses as a URL
\* and one that does not
Endpoints == {"https://gsh.example", "://"}

EndpointParses(e) == e # "://"

\* access tokens auth.RecoverToken may yield
AccessTokens == {"jwt-1"}

NoCall == [kind |-> "none", timeout |-> NoTimeout]

NoKeys == [SSHPublicKey |-> <<>>, SSHPrivateKey |-> <<>>]

NoFiles == [written |-> FALSE, key |-> <<>>, cert |-> ""]

NoSsh == [run |-> FALSE, i1 |-> "", i2 |-> "", l |-> "", host |-> ""]

NoCliReq == [sent |-> FALSE]

NoCliBody == [kind |-> "invalid", result |-> "", payload |-> ""]

NoCliResp == [err |-> FALSE, status |-> 0, readErr |-> FALSE, body |-> NoCliBody]

NoClaims == [preferred_username |-> "", email |-> ""]

\* A response body as encoding/json sees it: not JSON, the literal null, or an
\* object with a result and a payload (message or certificate), "" when absent.
CliBodies(payloads) ==
    {NoCliBody, [kind |-> "null", result |-> "", payload |-> ""]}
    \cup {[kind |-> "object", result |-> r, payload |-> p] :
            r \in {"success", "fail", ""}, p \in payloads \cup {""}}

\* What netClient.Do and the ReadAll after it may come back with
CliResponses(payloads) ==
    {[err |-> TRUE, status |-> 0, readErr |-> FALSE, body |-> NoCliBody]}
    \cup {[err |-> FALSE, status |-> s, readErr |-> TRUE, body |-> NoCliBody] : s \in Statuses}
    \cup {[err |-> FALSE, status |-> s, readErr |-> FALSE, body |-> b] :
            s \in Statuses, b \in CliBodies(payloads)}

\* the command before its Run has started
CliStart ==
    [pc |-> "start", exit |-> -1, out |-> {},
     role |-> <<>>, user |-> <<>>, host |-> "",
     keyType |-> "rsa", usernameChanged |-> FALSE, usernameFlag |-> "from OIDC token",
     endpoint |-> "", keys |-> NoKeys, token |-> "",
     usernameClaim |-> "", claims |-> NoClaims, username |-> "",
     call |-> NoCall, req |-> NoCliReq, resp |-> NoCliResp,
     files |-> NoFiles, ssh |-> NoSsh]

\* fmt.Printf of a diagnostic, then os.Exit(1)
Exit1(msg) == cli' = [cli EXCEPT !.pc = "exited", !.exit = 1, !.out = @ \cup {msg}, !.call = NoCall]

----------------------------------------------------------------------------
(* roleAssignCmd.Run *)

\* the slug check made only after auth.RecoverToken
RoleAssignValidateLate ==
    /\ program = "role-assign"
    /\ cli.pc = "start"
    /\ \E tok \in AccessTokens :
        IF ~IsSlug(cli.role)
          THEN cli' = [cli EXCEPT !.pc = "exited", !.exit = 1, !.token = tok,
                                  !.out = @ \cup {"Client error parsing id, is it a slug string?"}]
          ELSE cli' = [cli EXCEPT !.pc = "RecoverToken"]
    /\ UNCHANGED <<program, apiVars, conf>>

\* lines 59-65: the slug check on args[0]
RoleAssignValidate ==
    /\ program = "role-assign"
    /\ cli.pc = "start"
    /\ IF ~IsSlug(cli.role)
         THEN Exit1("Client error parsing id, is it a slug string?")
         ELSE cli' = [cli EXCEPT !.pc = "RecoverToken"]
    /\ UNCHANGED <<program, apiVars, conf>>

RoleAssignRequest(tok) ==
    [sent |-> TRUE,
     method |-> "POST",
     url |-> <<cli.endpoint, "/authz/roles/", cli.role, "/", cli.user>>,
     authorization |-> <<"JWT ", tok>>,
     body |-> ""]

\* lines 68-94: auth.RecoverToken, the HTTP client with timeouts, NewRequest,
\* netClient.Do is called
RoleAssignRecoverToken ==
    /\ program = "role-assign"
    /\ cli.pc = "RecoverToken"
    /\ \/ Exit1("Client error getting http client")
       \/ \E tok \in AccessTokens :
            IF ~EndpointParses(cli.endpoint)
              THEN Exit1("Client pre post role request")
              ELSE cli' = [cli EXCEPT !.pc = "Do", !.token = tok,
                                      !.req = RoleAssignRequest(tok),
                                      !.call = [kind |-> "POST /authz/roles", timeout |-> ClientTimeout]]
    /\ UNCHANGED <<program, apiVars, conf>>

\* lines 106-108: a status other than 200 is printed
RoleAssignStatusCheck(r, c) ==
    IF r.status # StatusOK
      THEN [c EXCEPT !.out = @ \cup {"Client error checking http status response"}]
      ELSE c

\* lines 94-128: Do returns; ReadAll; the status check; Unmarshal; the result
\* check; the message is printed and Run returns
RoleAssignResponse ==
    /\ program = "role-assign"
    /\ cli.pc = "Do"
    /\ \E r \in CliResponses({"role assigned"}) :
        LET c0 == [cli EXCEPT !.resp = r, !.call = NoCall, !.pc = "exited"]
            c1 == RoleAssignStatusCheck(r, c0)
        IN  IF r.err
              THEN cli' = [c0 EXCEPT !.exit = 1, !.out = @ \cup {"Client error post role request"}]
            ELSE IF r.readErr
              THEN cli' = [c0 EXCEPT !.exit = 1, !.out = @ \cup {"Client error reading role response"}]
            ELSE IF r.body.kind = "invalid"
              THEN cli' = [c1 EXCEPT !.exit = 1, !.out = @ \cup {"Client error parsing role response"}]
            ELSE IF r.body.kind = "null"
              \* Unmarshal of null leaves roleResponse nil: line 124 panics
              THEN cli' = [c1 EXCEPT !.exit = 2, !.out = @ \cup {"panic: nil pointer dereference"}]
            ELSE IF r.body.result = "fail"
              THEN cli' = [c1 EXCEPT !.exit = 1, !.out = @ \cup {"Client error calling GSH API"}]
            ELSE cli' = [c1 EXCEPT !.exit = 0, !.out = @ \cup {r.body.payload}]
    /\ UNCHANGED <<program, apiVars, conf>>

----------------------------------------------------------------------------
(* hostConnectCmd.Run *)

\* values of the --key-type flag: the default, and one the switch has no case for
KeyTypes == {"rsa", "ed25519"}

\* values of an explicitly supplied --username flag
UsernameFlags == {"admin", ""}

\* args[0]
Hosts == {"web1"}

\* the key pairs rsa.GenerateKey may draw
KeyPairs == {"k1", "k2"}

\* values the user-info endpoint may give a claim ("": the claim is absent)
ClaimValues == {"", "alice"}

\* username_claim values the discovery may configure
ClaimNames == {"preferred_username", "email"}

\* user.Current().Username
LocalUsers == {"localuser"}

\* lines 241-264: the switch on keyType has the one case "rsa"
GenerateKeys(keyType, k) ==
    IF keyType = "rsa"
      THEN [SSHPublicKey |-> <<"ssh-rsa", k>>, SSHPrivateKey |-> <<"RSA PRIVATE KEY", k>>]
      ELSE NoKeys

\* lines 236-271: the key-type switch (rsa.GenerateKey and ssh.NewPublicKey may
\* fail), url.Parse of the endpoint; then net.Dial is called (line 274)
HostConnectKeys ==
    /\ program = "host-connect"
    /\ cli.pc = "start"
    /\ \/ /\ cli.keyType = "rsa"
          /\ \/ Exit1("Client error generating RSA keys")
             \/ Exit1("Client error converting RSA to SSH keys")
       \/ \E k \in KeyPairs :
            IF ~EndpointParses(cli.endpoint)
              THEN Exit1("Client error parsing URL endpoint")
              ELSE cli' = [cli EXCEPT !.pc = "Dial",
                                      !.keys = GenerateKeys(cli.keyType, k),
                                      !.call = [kind |-> "net.Dial", timeout |-> NoTimeout]]
    /\ UNCHANGED <<program, apiVars, conf>>

\* lines 274-276: net.Dial("tcp", u.Host) returns; on an error the second
\* net.Dial is called
HostConnectDial ==
    /\ program = "host-connect"
    /\ cli.pc = "Dial"
    /\ \/ cli' = [cli EXCEPT !.pc = "Discovery", !.call = NoCall]
       \/ cli' = [cli EXCEPT !.pc = "DialScheme",
                             !.call = [kind |-> "net.Dial scheme", timeout |-> NoTimeout]]
    /\ UNCHANGED <<program, apiVars, conf>>

\* lines 276-283: net.Dial("tcp", u.Host+":"+u.Scheme) returns
HostConnectDialScheme ==
    /\ program = "host-connect"
    /\ cli.pc = "DialScheme"
    /\ \/ cli' = [cli EXCEPT !.pc = "Discovery", !.call = NoCall]
       \/ Exit1("Client error connecting on endpoint")
    /\ UNCHANGED <<program, apiVars, conf>>

\* lines 286-301: config.Discovery and auth.RecoverToken; then
\* oidc.NewProvider(context.Background(), ...) is called
HostConnectDiscovery ==
    /\ program = "host-connect"
    /\ cli.pc = "Discovery"
    /\ \/ Exit1("GSH client discover error")
       \/ Exit1("Client error getting http client")
       \/ \E claim \in ClaimNames, tok \in AccessTokens :
            cli' = [cli EXCEPT !.pc = "NewProvider", !.usernameClaim = claim, !.token = tok,
                               !.call = [kind |-> "oidc.NewProvider", timeout |-> NoTimeout]]
    /\ UNCHANGED <<program, apiVars, conf>>

\* lines 301-309: oidc.NewProvider returns; without --username the user-info
\* request is made
HostConnectNewProvider ==
    /\ program = "host-connect"
    /\ cli.pc = "NewProvider"
    /\ \/ Exit1("Client error getting OIDC Provider")
       \/ cli' = [cli EXCEPT !.pc = "Username",
                             !.call = IF cli.usernameChanged
                                        THEN NoCall
                                        ELSE [kind |-> "oidc.UserInfo", timeout |-> NoTimeout]]
    /\ UNCHANGED <<program, apiVars, conf>>

\* claims[configResponse.UsernameClaim], "" for a missing key
ClaimOf(claims, name) ==
    IF name = "preferred_username" THEN claims.preferred_username ELSE claims.email

\* the claim or the local user, whether or not --username was given
ResolveUsernameIgnoringFlag(changed, flag, claims, claimName, local) ==
    IF ClaimOf(claims, claimName) = "" THEN local ELSE ClaimOf(claims, claimName)

\* lines 307-333: the remote user
ResolveUsername(changed, flag, claims, claimName, local) ==
    IF ~changed
      THEN IF ClaimOf(claims, claimName) = "" THEN local ELSE ClaimOf(claims, claimName)
      ELSE flag

\* the request with the Authorization header built before the token is there
HostConnectCertRequestNoToken(c, username) ==
    [sent |-> TRUE,
     method |-> "POST",
     url |-> <<c.endpoint, "/certificates">>,
     authorization |-> <<"JWT ", "">>,
     body |-> [Key |-> c.keys.SSHPublicKey,
               RemoteHost |-> c.host,
               RemoteUser |-> username,
               UserIP |-> "192.0.2.7"]]

\* lines 336-361: certRequest, its JSON, the POST request and its headers
HostConnectCertRequest(c, username) ==
    [sent |-> TRUE,
     method |-> "POST",
     url |-> <<c.endpoint, "/certificates">>,
     authorization |-> <<"JWT ", c.token>>,
     body |-> [Key |-> c.keys.SSHPublicKey,
               RemoteHost |-> c.host,
               RemoteUser |-> username,
               UserIP |-> "192.0.2.7"]]

\* the user the ssh command of line 399 logs in as
SshLogin(c) == c.username

\* lines 307-362: the user-info claims or the flag give username; the
\* certificate request is built and netClient.Do is called
HostConnectUsername ==
    /\ program = "host-connect"
    /\ cli.pc = "Username"
    /\ \/ /\ ~cli.usernameChanged
          /\ Exit1("Client error getting OIDC userinfo")
       \/ \E claims \in [preferred_username : ClaimValues, email : ClaimValues] :
            /\ ~cli.usernameChanged \/ claims = NoClaims
            /\ \/ /\ ~cli.usernameChanged
                  /\ ClaimOf(claims, cli.usernameClaim) = ""
                  /\ Exit1("Client error getting username")
               \/ \E local \in LocalUsers :
                    LET username == ResolveUsername(cli.usernameChanged, cli.usernameFlag,
                                                    claims, cli.usernameClaim, local)
                    IN  cli' = [cli EXCEPT !.pc = "Do", !.claims = claims,
                                           !.username = username,
                                           !.req = HostConnectCertRequest(cli, username),
                                           !.call = [kind |-> "POST /certificates",
                                                     timeout |-> ClientTimeout]]
    /\ UNCHANGED <<program, apiVars, conf>>

\* as roleAssignCmd does it: the status is printed and the command goes on
HostConnectStatusPrintedOnly(r) == FALSE

\* lines 374-377: a status other than 200 ends the command
HostConnectStatusFails(r) == r.status # StatusOK

\* lines 362-389: Do returns; ReadAll; the status check; Unmarshal
HostConnectResponse ==
    /\ program = "host-connect"
    /\ cli.pc = "Do"
    /\ \E r \in CliResponses({"ssh-rsa-cert-v01 AAAA"}) :
        LET c0 == [cli EXCEPT !.resp = r, !.call = NoCall, !.pc = "exited"]
        IN  IF r.err
              THEN cli' = [c0 EXCEPT !.exit = 1, !.out = @ \cup {"Client error post certificate request"}]
            ELSE IF r.readErr
              THEN cli' = [c0 EXCEPT !.exit = 1, !.out = @ \cup {"Client error reading certificate response"}]
            ELSE IF HostConnectStatusFails(r)
              THEN cli' = [c0 EXCEPT !.exit = 1, !.out = @ \cup {"Client error checking http status response"}]
            ELSE IF r.body.kind = "invalid"
              THEN cli' = [c0 EXCEPT !.exit = 1, !.out = @ \cup {"Client error parsing certificate response"}]
            ELSE IF r.body.kind = "null"
              \* Unmarshal of null leaves certResponse nil: line 393 panics
              THEN cli' = [c0 EXCEPT !.exit = 2, !.out = @ \cup {"panic: nil pointer dereference"}]
            ELSE cli' = [c0 EXCEPT !.pc = "WriteKeys"]
    /\ UNCHANGED <<program, apiVars, conf>>

\* lines 393-397: files.WriteKeys(keys.SSHPrivateKey, certResponse.Certificate)
HostConnectWriteKeys ==
    /\ program = "host-connect"
    /\ cli.pc = "WriteKeys"
    /\ \/ Exit1("Client error write certificate files")
       \/ cli' = [cli EXCEPT !.pc = "ssh",
                             !.files = [written |-> TRUE,
                                        key |-> cli.keys.SSHPrivateKey,
                                        cert |-> cli.resp.body.payload]]
    /\ UNCHANGED <<program, apiVars, conf>>

\* lines 399-405: ssh -i keyFile -i certFile -l username args[0] runs, its
\* error dropped; "host-connect called" is printed and Run returns
HostConnectSsh ==
    /\ program = "host-connect"
    /\ cli.pc = "ssh"
    /\ cli' = [cli EXCEPT !.pc = "exited", !.exit = 0,
                          !.ssh = [run |-> TRUE, i1 |-> "keyFile", i2 |-> "certFile",
                                   l |-> SshLogin(cli), host |-> cli.host],
                          !.out = @ \cup {"host-connect called"}]
    /\ UNCHANGED <<program, apiVars, conf>>

----------------------------------------------------------------------------
(* func Check(config viper.Viper) error, of package config *)

CaExternalSettings ==
    <<"ca_signer_url", "ca_public_key_url", "ca_endpoint", "ca_role_id", "ca_external_secret_id">>

CaLocalSettings == <<"ca_private_key", "ca_public_key">>

OidcSettings ==
    <<"oidc_base_url", "oidc_realm", "oidc_audience", "oidc_authorized_party",
      "oidc_claim", "oidc_claim_name", "oidc_issuer", "oidc_certs">>

Range(seq) == {seq[i] : i \in DOMAIN seq}

\* every setting Check may look at: the PORT variable and the viper keys
Settings ==
    {"PORT", "storage_driver", "storage_uri", "perm_admin"}
    \cup Range(CaExternalSettings) \cup Range(CaLocalSettings) \cup Range(OidcSettings)

\* the sets of at most k settings
RECURSIVE SettingsUpTo(_)
SettingsUpTo(k) ==
    IF k = 0
      THEN {{}}
      ELSE LET P == SettingsUpTo(k - 1) IN P \cup {p \cup {x} : p \in P, x \in Settings}

\* the local CA keys tested in both modes: the else of line 111 lost
CheckedSettingsLocalAlways(external) ==
    <<"PORT", "storage_driver", "storage_uri">>
    \o (IF external THEN CaExternalSettings ELSE <<>>)
    \o CaLocalSettings
    \o OidcSettings
    \o <<"perm_admin">>

\* the settings Check tests for emptiness, in the order of its if statements
\* (lines 75-160); ca_external picks the branch of line 90
CheckedSettings(external) ==
    <<"PORT", "storage_driver", "storage_uri">>
    \o (IF external THEN CaExternalSettings ELSE CaLocalSettings)
    \o OidcSettings
    \o <<"perm_admin">>

\* the counter fails after the last if: one increment per empty setting tested
Fails(external, empty) ==
    Cardinality({i \in DOMAIN CheckedSettings(external) : CheckedSettings(external)[i] \in empty})

CheckErr == <<"incorrect configuration">>

NoConf == [external |-> FALSE, empty |-> {}, checked |-> FALSE, fails |-> 0, printed |-> {}, err |-> Nil]

\* lines 71-167
Check ==
    /\ program = "check"
    /\ ~conf.checked
    /\ conf' = [conf EXCEPT
                  !.checked = TRUE,
                  !.fails = Fails(conf.external, conf.empty),
                  !.printed = Range(CheckedSettings(conf.external)) \cap conf.empty,
                  !.err = IF Fails(conf.external, conf.empty) > 0 THEN CheckErr ELSE Nil]
    /\ UNCHANGED <<program, apiVars, cli>>

----------------------------------------------------------------------------

InitCheck ==
    /\ program = "check"
    /\ v = GetVault
    /\ cli = CliStart
    /\ \E external \in BOOLEAN, empty \in SettingsUpTo(MaxEmpty) :
        conf = [NoConf EXCEPT !.external = external, !.empty = empty]

InitApi ==
    /\ program = "api"
    /\ v \in {GetVault, ConfiguredVault}
    /\ cli = CliStart
    /\ conf = NoConf

InitRoleAssign ==
    /\ program = "role-assign"
    /\ v = GetVault
    /\ \E role \in RoleArgs, user \in UserArgs, e \in Endpoints :
        cli = [CliStart EXCEPT !.role = role, !.user = user, !.endpoint = e]
    /\ conf = NoConf

InitHostConnect ==
    /\ program = "host-connect"
    /\ v = GetVault
    /\ \E kt \in KeyTypes, host \in Hosts, e \in Endpoints, changed \in BOOLEAN :
        \E flag \in IF changed THEN UsernameFlags ELSE {"from OIDC token"} :
            cli = [CliStart EXCEPT !.keyType = kt, !.host = host, !.endpoint = e,
                                   !.usernameChanged = changed, !.usernameFlag = flag]
    /\ conf = NoConf

Init ==
    /\ \/ InitApi
       \/ InitRoleAssign
       \/ InitHostConnect
       \/ InitCheck
    /\ gpc = [g \in Goroutines |-> "idle"]
    /\ greq = [g \in Goroutines |-> NoReq]
    /\ gresp = [g \in Goroutines |-> NoResp]
    /\ gret = [g \in Goroutines |-> NoRet]
    /\ log = {}

Next ==
    \/ \E g \in Goroutines : GetTokenCall(g)
    \/ \E g \in Goroutines : GetTokenResponse(g)
    \/ \E g \in Goroutines : GetTokenStore(g)
    \/ \E g \in Goroutines : SignSshCertificateCall(g)
    \/ \E g \in Goroutines : SignSshCertificateResponse(g)
    \/ \E g \in Goroutines : GetExternalPublicKeyCall(g)
    \/ \E g \in Goroutines : GetExternalPublicKeyResponse(g)
    \/ RoleAssignValidate
    \/ RoleAssignRecoverToken
    \/ RoleAssignResponse
    \/ HostConnectKeys
    \/ HostConnectDial
    \/ HostConnectDialScheme
    \/ HostConnectDiscovery
    \/ HostConnectNewProvider
    \/ HostConnectUsername
    \/ HostConnectResponse
    \/ HostConnectWriteKeys
    \/ HostConnectSsh
    \/ Check

Spec == Init /\ [][Next]_vars

----------------------------------------------------------------------------
(* Properties *)

\* the Issuance Service answered, and not with an Allow
NonAllow(r) ==
    /\ r # NoCliResp
    /\ ~r.err
    /\ ~r.readErr
    /\ \/ r.status # StatusOK
       \/ r.body.kind = "object" /\ r.body.result = "fail"

\* some step of host-connect failed: the command saw it and exited, or the
\* issuance response is not an Allow
HostConnectStepFailed == cli.exit \in {1, 2} \/ NonAllow(cli.resp)

\* C1: in host-connect, once any step has failed (key generation, token
\* acquisition, a transport error, a status other than 200 or a result "fail"),
\* no key or certificate file is written, ssh is not run and the exit is not 0.
C1_FailedStepAborts ==
    (program = "host-connect" /\ HostConnectStepFailed)
        => (~cli.files.written /\ ~cli.ssh.run /\ cli.exit # 0)

\* C2: the valid_principals a signing request carries is exactly the remote
\* user of the certificate passed in.
C2_PrincipalsAsRequested ==
    \A g \in Goroutines :
        greq[g].op = "SignSshCertificate"
            => greq[g].body.valid_principals = greq[g].cert.ValidPrincipals

\* the response is 200 with a body that does not decode or lacks the field
EmptyOrMalformed200(r) ==
    ~r.err /\ r.status = StatusOK /\ (~r.body.valid \/ r.body.value = "")

\* C3: GetToken and SignSshCertificate return an error on a 200 response whose
\* body is malformed or lacks the token / signed key; success never comes with
\* an empty certificate.
C3_Malformed200IsError ==
    \A g \in Goroutines :
        (gret[g].op \in {"GetToken", "SignSshCertificate"} /\ EmptyOrMalformed200(gresp[g]))
            => gret[g].err # Nil

\* C4: a signing request answered with a status other than 200 makes
\* SignSshCertificate return an error and no certificate, and host-connect,
\* answered with a status other than 200, exits 1 with no key file written
\* and no ssh run.
C4_Non200Fails ==
    /\ \A g \in Goroutines :
        (gret[g].op = "SignSshCertificate" /\ ~gresp[g].err /\ gresp[g].status # StatusOK)
            => (gret[g].err # Nil /\ gret[g].val \notin SignedKeys \cup {""})
    /\ (program = "host-connect" /\ ~cli.resp.err /\ cli.resp.status \in Statuses \ {StatusOK})
            => (cli.exit = 1 /\ ~cli.files.written /\ ~cli.ssh.run)

C4_Witness ==
    \E g \in Goroutines :
        /\ gret[g].op = "SignSshCertificate"
        /\ gresp[g].status = 500
        /\ gret[g].val = "-1"
        /\ gret[g].err = SignErrStatus

\* C5: no signing request is sent with an empty token: a signer whose token
\* is absent authenticates first.
C5_NoSignWithoutToken ==
    \A g \in Goroutines :
        greq[g].op = "SignSshCertificate" => greq[g].token # ""

\* the goroutines inside GetToken, from the login request to the store
Refreshing == {g \in Goroutines : gpc[g] \in {"GetToken.Do", "GetToken.store"}}

\* C6: at most one GetToken is in flight at any time, and no signing request
\* carries a token read while another goroutine was storing it.
C6_RefreshCoordinated ==
    /\ Cardinality(Refreshing) <= 1
    /\ \A g \in Goroutines :
        greq[g].op = "SignSshCertificate" => greq[g].token # Torn

\* C7: role-assign exits 0 only after a 200 response whose result is not
\* "fail".
C7_RoleAssignExit0 ==
    (program = "role-assign" /\ cli.exit = 0)
        => (cli.resp.status = StatusOK /\ cli.resp.body.result # "fail")

\* C8: every outbound call in flight, of the Vault methods and of the client
\* commands, has a timeout.
C8_CallsHaveTimeouts ==
    /\ \A g \in Goroutines : greq[g].op # "none" => greq[g].timeout > NoTimeout
    /\ cli.call.kind # "none" => cli.call.timeout > NoTimeout

\* C9: the remote user of host-connect's certificate request is the
\* --username value when the flag was given; otherwise the configured claim of
\* the user-info claims when it is not empty; otherwise the local user; and ssh
\* logs in as that same user.
C9_PrincipalResolution ==
    (program = "host-connect" /\ cli.req.sent) =>
        /\ cli.usernameChanged => cli.req.body.RemoteUser = cli.usernameFlag
        /\ (~cli.usernameChanged /\ cli.usernameClaim = "preferred_username"
                /\ cli.claims.preferred_username # "")
              => cli.req.body.RemoteUser = cli.claims.preferred_username
        /\ (~cli.usernameChanged /\ cli.usernameClaim = "email" /\ cli.claims.email # "")
              => cli.req.body.RemoteUser = cli.claims.email
        /\ (~cli.usernameChanged /\ cli.usernameClaim = "preferred_username"
                /\ cli.claims.preferred_username = "")
              => cli.req.body.RemoteUser \in LocalUsers
        /\ (~cli.usernameChanged /\ cli.usernameClaim = "email" /\ cli.claims.email = "")
              => cli.req.body.RemoteUser \in LocalUsers
        /\ cli.ssh.run => cli.ssh.l = cli.req.body.RemoteUser

C9_Witness ==
    /\ program = "host-connect"
    /\ cli.ssh.run
    /\ ~cli.usernameChanged
    /\ cli.usernameClaim = "email"
    /\ cli.claims.email = "alice"
    /\ cli.claims.preferred_username = ""
    /\ cli.ssh.l = "alice"

\* the signer's credentials: any access token, and the secret_id
Secrets == (Tokens \cup {v.secretId}) \ {""}

\* text, a sequence of pieces, contains one of the secrets
Leaks(text) == \E i \in DOMAIN text : text[i] \in Secrets

\* C10: whatever a Vault method returns (value or error text) and whatever
\* the process prints holds neither an access token nor the secret_id.
C10_NoCredentialLeak ==
    /\ \A g \in Goroutines : ~Leaks(<<gret[g].val>>) /\ ~Leaks(gret[g].err)
    /\ \A line \in log : ~Leaks(line)

C10_Witness ==
    /\ v.secretId # ""
    /\ v.token \in Tokens
    /\ log # {}
    /\ \E g \in Goroutines : gret[g].op = "SignSshCertificate" /\ gret[g].err = SignErrStatus
    /\ \E g \in Goroutines : gret[g].op = "GetExternalPublicKey" /\ gret[g].err # Nil

\* C11: one call of GetToken or of SignSshCertificate sends at most two HTTP
\* requests, and a call whose last request failed in transport returns the
\* error.
C11_AtMostOneRetry ==
    \A g \in Goroutines :
        /\ greq[g].op \in {"GetToken", "SignSshCertificate"} => greq[g].attempt <= 2
        /\ gret[g].op \in {"GetToken", "SignSshCertificate"} =>
              /\ gret[g].requests <= 2
              /\ gresp[g].err => gret[g].err # Nil

C11_Witness ==
    /\ \E g \in Goroutines :
        /\ gret[g].op = "GetToken"
        /\ gresp[g].err
        /\ gret[g].requests = 1
        /\ gret[g].err = GetTokenErrDo
    /\ \E g \in Goroutines :
        /\ gret[g].op = "SignSshCertificate"
        /\ gresp[g].err
        /\ gret[g].requests = 1
        /\ gret[g].err = SignErrDo

\* C12: every certificate request of host-connect carries a public key that
\* is not empty, the one generated in this run, whatever --key-type is, and
\* the private key written is never empty.
C12_KeyInEveryRequest ==
    program = "host-connect" =>
        /\ cli.req.sent =>
              (cli.req.body.Key # <<>> /\ cli.req.body.Key = cli.keys.SSHPublicKey)
        /\ cli.files.written => cli.files.key # <<>>

Required(external) ==
    {"PORT", "storage_driver", "storage_uri", "perm_admin",
     "oidc_base_url", "oidc_realm", "oidc_audience", "oidc_authorized_party",
     "oidc_claim", "oidc_claim_name", "oidc_issuer", "oidc_certs"}
    \cup (IF external
            THEN {"ca_signer_url", "ca_public_key_url", "ca_endpoint", "ca_role_id",
                  "ca_external_secret_id"}
            ELSE {"ca_private_key", "ca_public_key"})

\* C14: Check returns "incorrect configuration" exactly when a required
\* setting is empty, and nil otherwise; with ca_external the required CA
\* settings are the five of the external signer, without it ca_private_key
\* and ca_public_key; the others are required in both modes.
C14_CheckRequiredSettings ==
    (program = "check" /\ conf.checked) =>
        /\ conf.err = CheckErr <=> (Required(conf.external) \cap conf.empty # {})
        /\ conf.err \in {CheckErr, Nil}

C14_Witness ==
    /\ program = "check"
    /\ conf.checked
    /\ conf.external
    /\ conf.empty = {"ca_private_key", "ca_public_key"}
    /\ conf.err = Nil

\* C15: role-assign with a role argument that is not a slug prints the
\* diagnostic and exits 1; it recovers no token and sends no HTTP request.
C15_NonSlugRejectedFirst ==
    (program = "role-assign" /\ ~IsSlug(cli.role)) =>
        /\ cli.pc \in {"start", "exited"}
        /\ cli.token = ""
        /\ ~cli.req.sent
        /\ cli.call = NoCall
        /\ cli.pc = "exited" =>
              /\ cli.exit = 1
              /\ cli.out = {"Client error parsing id, is it a slug string?"}

C15_Witness ==
    /\ program = "role-assign"
    /\ cli.role = <<"a", " ", "a">>
    /\ cli.pc = "exited"
    /\ cli.exit = 1
    /\ cli.token = ""

\* C16: a GetToken that returns an error leaves the Vault as it was; the
\* Vault changes only in the step in which a GetToken returns nil, and then
\* only its token, which becomes the client_token of that call's response
\* ("" when the response has none).
C16_GetTokenFrame ==
    [][/\ \A g \in Goroutines :
            (gpc[g] \in {"GetToken.Do", "GetToken.store"} /\ gpc'[g] = "idle"
                /\ gret'[g].err # Nil) => v' = v
       /\ v' # v =>
            \E g \in Goroutines :
                gpc[g] = "GetToken.store" /\ gret'[g].op = "GetToken" /\ gret'[g].err = Nil
       /\ \A g \in Goroutines :
            (gpc[g] = "GetToken.store" /\ gpc'[g] = "idle") =>
                /\ gret'[g].err = Nil
                /\ v'.Url = v.Url /\ v'.roleId = v.roleId /\ v'.secretId = v.secretId
                /\ gresp[g].body.valid => v'.token = gresp[g].body.value
                /\ ~gresp[g].body.valid => v'.token = ""]_vars

C16_Witness ==
    /\ v.token = "tok-1"
    /\ v.secretId # ""
    /\ \E g \in Goroutines :
        /\ gret[g].op = "GetToken"
        /\ gret[g].err = GetTokenErrStatus
    /\ \E g \in Goroutines :
        /\ gret[g].op = "GetToken"
        /\ gret[g].err = Nil
        /\ gresp[g].body.value = "tok-1"

\* C17: GetExternalPublicKey(url) sends its GET to url, returns the body of
\* a 200 response, and returns an error and no key on a transport error, a
\* status other than 200 or a failed read of the body.
C17_GetExternalPublicKey ==
    \A g \in Goroutines :
        /\ greq[g].op = "GetExternalPublicKey" => greq[g].url = <<greq[g].arg>>
        /\ gret[g].op = "GetExternalPublicKey" =>
              IF ~gresp[g].err /\ gresp[g].status = StatusOK /\ ~gresp[g].readErr
                THEN gret[g].err = Nil /\ gret[g].val = gresp[g].body.value
                ELSE gret[g].err # Nil /\ gret[g].val \notin PublicKeys

====
